---- MODULE Spec2Model ----
(***************************************************************************)
(* Model of src/deep_pointer.rs: DeepPointer<CAP>, a pointer path that is  *)
(* resolved against the memory of another process.                         *)
(*                                                                         *)
(* The machine words of the program are scaled down: an Address / u64 has  *)
(* WideBits bits (64 in the program) and an Address32 has NarrowBits bits  *)
(* (32 in the program).  Arithmetic keeps its width.                       *)
(***************************************************************************)
EXTENDS Integers, Sequences, FiniteSets, TLC

\* ------------------------------------------------------------------------
\* Bounds of the model
\* ------------------------------------------------------------------------
WideBits == 3
NarrowBits == 2
MaxCap == 3

AddressSpace == 2 ^ WideBits
NarrowSpace == 2 ^ NarrowBits
Address == 0 .. (AddressSpace - 1)

\* the inputs the operations are called with
BaseValues == {0, 2}
OffsetValues == {0, AddressSpace - 1}
\* the pages of the target process that are ever mapped, and the words
\* the target process stores there (NarrowSpace + 1 does not fit 4 bytes)
MemAddrs == {1, NarrowSpace + 1}
MemValues == {0, NarrowSpace + 1}
Caps == 0 .. MaxCap
DerefTypes == {"Bit32", "Bit64"}

RECURSIVE SeqsUpTo(_, _)
SeqsUpTo(S, n) ==
    IF n = 0 THEN {<<>>}
    ELSE LET shorter == SeqsUpTo(S, n - 1)
         IN shorter \cup {Append(s, x) : s \in shorter, x \in S}

\* ------------------------------------------------------------------------
\* crate::Address, crate::Error, crate::Process (the collaborators)
\* ------------------------------------------------------------------------
IsNull(a) == a = 0

AddressAdd(a, offset) == (a + offset) % AddressSpace

\* Result<_, Error>: Error is a unit struct, `err` names the place that made it
Ok(v) == [ok |-> TRUE, value |-> v, err |-> "none"]
Err(e) == [ok |-> FALSE, value |-> 0, err |-> e]

\* the size in bytes (scaled: bits) of the type that is read
ReadBits(ty) == IF ty = "Address32" THEN NarrowBits ELSE WideBits

\* process.read::<T>(address): the low bytes of the word stored at address
\* (little endian), or the reader's failure when the address is not mapped
ProcessRead(m, ty, a) ==
    IF a \in DOMAIN m THEN Ok(m[a] % (2 ^ ReadBits(ty))) ELSE Err("ReadFailed")

\* one entry of the log of reads issued to the process
ReadRecord(ty, a, r) == [type |-> ty, address |-> a, outcome |-> r]

\* ------------------------------------------------------------------------
\* DeepPointer
\* ------------------------------------------------------------------------
DeepPointer(base_address, path, deref_type) ==
    [base_address |-> base_address, path |-> path, deref_type |-> deref_type]

DerefTypeDefault == "Bit64"

DefaultPointer == DeepPointer(0, <<>>, DerefTypeDefault)

\* new without the length check of its assert
NewAssertNoLength(CAP, path) == CAP # 0

\* assert!(CAP != 0 && CAP >= path.len())
NewAssert(CAP, path) == CAP # 0 /\ CAP >= Len(path)

\* path.iter().cloned().collect()
CollectPath(CAP, path) == path

NewPointer(CAP, base_address, deref_type, path) ==
    DeepPointer(base_address, CollectPath(CAP, path), deref_type)

\* with_base_address that clones self and drops the new base address
WithBaseAddressKeepsBase(self, base_address) == self

WithBaseAddress(self, base_address) ==
    DeepPointer(base_address, self.path, self.deref_type)

\* a pointer read that ignores self.deref_type
PointerTypeAlwaysWide(deref_type) == "Address64"

\* the type read for an intermediate pointer, by self.deref_type
PointerType(deref_type) ==
    IF deref_type = "Bit32" THEN "Address32" ELSE "Address64"

\* a loop over all the offsets instead of all but the last
IntermediateWhole(path) == path

\* split_last(): the offsets that are followed, and the last one
Intermediate(path) == SubSeq(path, 1, Len(path) - 1)
LastOffset(path) == path[Len(path)]

\* the value of a pointer read, as an Address (`.into()`)
IntoAddress(v) == v

Traversal(reads, result) == [reads |-> reads, result |-> result]

\* the loop with the null check applied to every pointer that is read
RECURSIVE FollowPathNullChecked(_, _, _, _, _)
FollowPathNullChecked(self, m, address, i, reads) ==
    IF i > Len(Intermediate(self.path))
    THEN Traversal(reads, Ok(AddressAdd(address, LastOffset(self.path))))
    ELSE LET ty == PointerType(self.deref_type)
             at == AddressAdd(address, Intermediate(self.path)[i])
             r == ProcessRead(m, ty, at)
             log == Append(reads, ReadRecord(ty, at, r))
         IN IF ~r.ok THEN Traversal(log, r)
            ELSE IF IsNull(IntoAddress(r.value))
            THEN Traversal(log, Err("NullBase"))
            ELSE FollowPathNullChecked(self, m, IntoAddress(r.value), i + 1, log)

\* the loop with a failed read taken as a null pointer instead of `?`
RECURSIVE FollowPathUnwrapOrDefault(_, _, _, _, _)
FollowPathUnwrapOrDefault(self, m, address, i, reads) ==
    IF i > Len(Intermediate(self.path))
    THEN Traversal(reads, Ok(AddressAdd(address, LastOffset(self.path))))
    ELSE LET ty == PointerType(self.deref_type)
             at == AddressAdd(address, Intermediate(self.path)[i])
             r == ProcessRead(m, ty, at)
             log == Append(reads, ReadRecord(ty, at, r))
         IN FollowPathUnwrapOrDefault(self, m, IntoAddress(r.value), i + 1, log)

\* the for loop of deref_offsets_from, from the i-th intermediate offset on
RECURSIVE FollowPath(_, _, _, _, _)
FollowPath(self, m, address, i, reads) ==
    IF i > Len(Intermediate(self.path))
    THEN Traversal(reads, Ok(AddressAdd(address, LastOffset(self.path))))
    ELSE LET ty == PointerType(self.deref_type)
             at == AddressAdd(address, Intermediate(self.path)[i])
             r == ProcessRead(m, ty, at)
             log == Append(reads, ReadRecord(ty, at, r))
         IN IF r.ok
            THEN FollowPath(self, m, IntoAddress(r.value), i + 1, log)
            ELSE Traversal(log, r)

\* deref_offsets_from without the null check of the base address
DerefOffsetsFromNoNullCheck(self, m, base_address) ==
    IF self.path = <<>> THEN Traversal(<<>>, Err("EmptyPath"))
    ELSE FollowPath(self, m, base_address, 1, <<>>)

\* deref_offsets_from with the base address as the result of an empty path
DerefOffsetsFromEmptyIsBase(self, m, base_address) ==
    IF IsNull(base_address) THEN Traversal(<<>>, Err("NullBase"))
    ELSE IF self.path = <<>> THEN Traversal(<<>>, Ok(base_address))
    ELSE FollowPath(self, m, base_address, 1, <<>>)

DerefOffsetsFrom(self, m, base_address) ==
    IF IsNull(base_address) THEN Traversal(<<>>, Err("NullBase"))
    ELSE IF self.path = <<>> THEN Traversal(<<>>, Err("EmptyPath"))
    ELSE FollowPath(self, m, base_address, 1, <<>>)

DerefOffsets(self, m) == DerefOffsetsFrom(self, m, self.base_address)

\* a value read that is issued whether or not the address was resolved
ReadValueAlways(m, t) ==
    LET r == ProcessRead(m, "T", t.result.value)
    IN Traversal(Append(t.reads, ReadRecord("T", t.result.value, r)), r)

\* process.read(address?): the read of the value, only for a resolved address
ReadValue(m, t) ==
    IF t.result.ok
    THEN LET r == ProcessRead(m, "T", t.result.value)
         IN Traversal(Append(t.reads, ReadRecord("T", t.result.value, r)), r)
    ELSE t

DerefFrom(self, m, base_address) ==
    ReadValue(m, DerefOffsetsFrom(self, m, base_address))

Deref(self, m) == ReadValue(m, DerefOffsets(self, m))

\* ------------------------------------------------------------------------
\* State
\* ------------------------------------------------------------------------
VARIABLES
    cap,          \* the const generic CAP of the pointer
    status,       \* "uninit", "live" or "panicked" (new's assert failed)
    ptr,          \* the DeepPointer, <<p>> once constructed
    rebased,      \* the pointer made by with_base_address, <<p>> once made
    mem,          \* the memory of the target process: mapped address -> word
    args,         \* history: <<the arguments of new>>
    built,        \* history: <<the pointer as new or default returned it>>
    rebaseArg,    \* history: <<the argument of the last with_base_address>>
    last,         \* history: <<the last resolve call, its reads and result>>
    failedBefore  \* history: a resolve of ptr from a non-null base failed

vars == <<cap, status, ptr, rebased, mem, args, built, rebaseArg, last,
          failedBefore>>

Init ==
    /\ cap \in Caps
    /\ status = "uninit"
    /\ ptr = <<>>
    /\ rebased = <<>>
    /\ mem = <<>>
    /\ args = <<>>
    /\ built = <<>>
    /\ rebaseArg = <<>>
    /\ last = <<>>
    /\ failedBefore = FALSE

\* DeepPointer::<CAP>::new / new_32bit / new_64bit
New(base_address, deref_type, path) ==
    /\ status = "uninit"
    /\ args' = <<[base_address |-> base_address, deref_type |-> deref_type,
                  path |-> path]>>
    /\ IF NewAssert(cap, path)
       THEN /\ status' = "live"
            /\ ptr' = <<NewPointer(cap, base_address, deref_type, path)>>
       ELSE /\ status' = "panicked"
            /\ ptr' = ptr
    /\ built' = ptr'
    /\ UNCHANGED <<cap, rebased, mem, rebaseArg, last, failedBefore>>

\* DeepPointer::<CAP>::default
Default ==
    /\ status = "uninit"
    /\ status' = "live"
    /\ ptr' = <<DefaultPointer>>
    /\ built' = ptr'
    /\ UNCHANGED <<cap, rebased, mem, args, rebaseArg, last, failedBefore>>

\* with_base_address
Rebase(base_address) ==
    /\ status = "live"
    /\ rebased' = <<WithBaseAddress(ptr[1], base_address)>>
    /\ rebaseArg' = <<base_address>>
    /\ UNCHANGED <<cap, status, ptr, mem, args, built, last, failedBefore>>

\* the pointers that exist, by name
Names == {"ptr"} \cup (IF rebased = <<>> THEN {} ELSE {"rebased"})
Self(name) == IF name = "ptr" THEN ptr[1] ELSE rebased[1]

\* the history of a resolve call: what was called on which pointer, the
\* reads it issued and what it returned
Record(op, name, base_address, t) ==
    /\ last' = <<[op |-> op, self |-> name, this |-> Self(name),
                  base |-> base_address, reads |-> t.reads,
                  result |-> t.result]>>
    /\ failedBefore' = (failedBefore \/
                        (name = "ptr" /\ ~IsNull(base_address) /\ ~t.result.ok))

CallDerefOffsets(name) ==
    /\ status = "live" /\ name \in Names
    /\ Record("deref_offsets", name, Self(name).base_address,
              DerefOffsets(Self(name), mem))
    /\ UNCHANGED <<cap, status, ptr, rebased, mem, args, built, rebaseArg>>

\* deref_offsets_from that keeps the address it resolved as the new base
CallDerefOffsetsFromCaching(name, base_address) ==
    LET t == DerefOffsetsFrom(Self(name), mem, base_address)
        cached == IF t.result.ok THEN WithBaseAddress(Self(name), t.result.value)
                  ELSE Self(name)
    IN /\ status = "live" /\ name \in Names
       /\ Record("deref_offsets_from", name, base_address, t)
       /\ ptr' = IF name = "ptr" THEN <<cached>> ELSE ptr
       /\ rebased' = IF name = "rebased" THEN <<cached>> ELSE rebased
       /\ UNCHANGED <<cap, status, mem, args, built, rebaseArg>>

CallDerefOffsetsFrom(name, base_address) ==
    /\ status = "live" /\ name \in Names
    /\ Record("deref_offsets_from", name, base_address,
              DerefOffsetsFrom(Self(name), mem, base_address))
    /\ UNCHANGED <<cap, status, ptr, rebased, mem, args, built, rebaseArg>>

CallDeref(name) ==
    /\ status = "live" /\ name \in Names
    /\ Record("deref", name, Self(name).base_address, Deref(Self(name), mem))
    /\ UNCHANGED <<cap, status, ptr, rebased, mem, args, built, rebaseArg>>

CallDerefFrom(name, base_address) ==
    /\ status = "live" /\ name \in Names
    /\ Record("deref_from", name, base_address,
              DerefFrom(Self(name), mem, base_address))
    /\ UNCHANGED <<cap, status, ptr, rebased, mem, args, built, rebaseArg>>

\* the target process maps or overwrites a word of its memory
MemWrite(a, v) ==
    /\ mem' = [x \in DOMAIN mem \cup {a} |-> IF x = a THEN v ELSE mem[x]]
    /\ mem' # mem
    /\ UNCHANGED <<cap, status, ptr, rebased, args, built, rebaseArg, last,
                   failedBefore>>

\* the target process unmaps a word of its memory
MemUnmap(a) ==
    /\ a \in DOMAIN mem
    /\ mem' = [x \in DOMAIN mem \ {a} |-> mem[x]]
    /\ UNCHANGED <<cap, status, ptr, rebased, args, built, rebaseArg, last,
                   failedBefore>>

Next ==
    \/ \E b \in BaseValues, d \in DerefTypes,
          p \in SeqsUpTo(OffsetValues, MaxCap + 1) : New(b, d, p)
    \/ Default
    \/ \E b \in BaseValues : Rebase(b)
    \/ \E n \in {"ptr", "rebased"} : CallDerefOffsets(n)
    \/ \E n \in {"ptr", "rebased"}, b \in BaseValues : CallDerefOffsetsFrom(n, b)
    \/ \E n \in {"ptr", "rebased"} : CallDeref(n)
    \/ \E n \in {"ptr", "rebased"}, b \in BaseValues : CallDerefFrom(n, b)
    \/ \E a \in MemAddrs, v \in MemValues : MemWrite(a, v)
    \/ \E a \in MemAddrs : MemUnmap(a)

Spec == Init /\ [][Next]_vars

\* ------------------------------------------------------------------------
\* Properties
\* ------------------------------------------------------------------------
Called == last # <<>>
L == last[1]
AddressOps == {"deref_offsets", "deref_offsets_from"}
ValueOps == {"deref", "deref_from"}
\* the offsets of the pointer the last call was made on, and their number
Offsets == L.this.path
N == Len(Offsets)
Reads == L.reads
AllReadsOk == \A k \in 1 .. Len(Reads) : Reads[k].outcome.ok
FailedReads == {k \in 1 .. Len(Reads) : ~Reads[k].outcome.ok}
\* the address the k-th offset is added to: the base, then each pointer read
StartOf(k) == IF k = 1 THEN L.base ELSE Reads[k - 1].outcome.value

\* C1: a resolve_address from a non-null base on N >= 1 offsets whose reads
\* all succeed issues exactly N-1 reads, the k-th at (the base, then the
\* pointer the read before returned) + the k-th offset, and returns the last
\* pointer read (the base for N = 1) + the last offset, which is not read.
C1_ReadChain ==
    (Called /\ L.op \in AddressOps /\ ~IsNull(L.base) /\ N >= 1 /\ AllReadsOk)
    => /\ Len(Reads) = N - 1
       /\ \A k \in 1 .. (N - 1) :
             Reads[k].address = AddressAdd(StartOf(k), Offsets[k])
       /\ L.result = Ok(AddressAdd(StartOf(N), Offsets[N]))

C1_Witness ==
    /\ Called /\ L.op \in AddressOps /\ N = 3 /\ L.result.ok
    /\ Len(Reads) = 2 /\ Reads[1].address # Reads[2].address

\* C2: a resolve_address from a null base returns the NullBase failure and
\* issues no read, whatever the offsets and the width.
C2_NullBase ==
    (Called /\ L.op \in AddressOps /\ IsNull(L.base))
    => (L.result = Err("NullBase") /\ Reads = <<>>)

C2_Witness ==
    /\ Called /\ L.op \in AddressOps /\ IsNull(L.base) /\ N >= 2
    /\ L.result = Err("NullBase")

\* C3 as claimed: a resolve_address on a path without offsets returns the
\* EmptyPath failure for any base address, and issues no read.
C3_AnyBase ==
    (Called /\ L.op \in AddressOps /\ N = 0)
    => (L.result = Err("EmptyPath") /\ Reads = <<>>)

\* C3: a resolve_address on a path without offsets never returns an address
\* and issues no read; it returns the EmptyPath failure for every non-null
\* base address, and the NullBase failure for the null base address.
C3_EmptyPath ==
    (Called /\ L.op \in AddressOps /\ N = 0)
    => /\ Reads = <<>>
       /\ ~L.result.ok
       /\ L.result = IF IsNull(L.base) THEN Err("NullBase") ELSE Err("EmptyPath")

C3_Witness ==
    /\ Called /\ L.op \in AddressOps /\ N = 0 /\ ~IsNull(L.base)
    /\ L.result = Err("EmptyPath")

\* C4: when an intermediate read of a resolve_address (non-null base, N >= 2
\* offsets) fails, the failing read is the last read issued, and the call
\* returns that read's failure and no address.
C4_ReadFailed ==
    (Called /\ L.op \in AddressOps /\ ~IsNull(L.base) /\ N >= 2
        /\ FailedReads # {})
    => \A k \in FailedReads :
          /\ k = Len(Reads)
          /\ k <= N - 1
          /\ L.result = Reads[k].outcome
          /\ ~L.result.ok
          /\ L.result.err = "ReadFailed"

C4_Witness ==
    /\ Called /\ L.op \in AddressOps /\ ~IsNull(L.base) /\ N = 3
    /\ Len(Reads) = 1 /\ ~Reads[1].outcome.ok /\ L.result.err = "ReadFailed"

\* C5: new panics exactly when CAP = 0 or there are more offsets than CAP; a
\* pointer it returns holds the given base, width and offsets, in order; no
\* pointer has more offsets than CAP.
Pointers == {ptr, rebased, built} \ {<<>>}
C5_Construction ==
    /\ args # <<>> =>
          /\ (status = "panicked") <=> (cap = 0 \/ Len(args[1].path) > cap)
          /\ (status = "live") <=> (cap > 0 /\ Len(args[1].path) <= cap)
          /\ status = "live" =>
                built[1] = DeepPointer(args[1].base_address, args[1].path,
                                       args[1].deref_type)
    /\ \A p \in Pointers : Len(p[1].path) <= cap

C5_Witness ==
    /\ args # <<>> /\ status = "panicked" /\ cap >= 2
    /\ Len(args[1].path) = cap + 1

\* a step that is a resolve call (the calls are the steps that write `last`)
IsCall == last' # last
C == last'[1]
\* what a resolve operation returns for a pointer, a memory and a base
Outcome(op, this, m, base) ==
    IF op \in AddressOps THEN DerefOffsetsFrom(this, m, base)
    ELSE DerefFrom(this, m, base)

\* C6: with_base_address(b) makes a pointer with the offsets and the width
\* of the original and the base b, and leaves the original as it was built;
\* deref_offsets on the new pointer issues the reads and returns the outcome
\* of deref_offsets_from(b) on the original, for the same memory.
C6_RebasedPointer ==
    rebased # <<>> =>
       /\ rebased[1] = DeepPointer(rebaseArg[1], ptr[1].path, ptr[1].deref_type)
       /\ ptr = built
C6_WithBaseAddress ==
    /\ []C6_RebasedPointer
    /\ [][/\ rebased' # rebased => ptr' = ptr
          /\ (IsCall /\ C.self = "rebased" /\ C.op = "deref_offsets") =>
                Traversal(C.reads, C.result)
                    = DerefOffsetsFrom(ptr[1], mem, rebaseArg[1])]_vars

C6_Witness ==
    /\ Called /\ L.self = "rebased" /\ L.op = "deref_offsets"
    /\ rebased # <<>> /\ L.this = rebased[1]
    /\ rebased[1].base_address # ptr[1].base_address
    /\ L.result.ok /\ Len(Reads) >= 1

\* C7: a resolve_value issues the reads of the resolve_address from the same
\* base and, when that returns an address, one more read, of the value at
\* that address, whose outcome it returns (N reads for N offsets when all
\* succeed); when the resolve_address fails it returns that failure and
\* issues no further read.
C7_ResolveValue ==
    [][(IsCall /\ C.op \in ValueOps) =>
          LET t == DerefOffsetsFrom(C.this, mem, C.base)
              n == Len(C.reads)
          IN IF t.result.ok
             THEN /\ n = Len(t.reads) + 1
                  /\ SubSeq(C.reads, 1, n - 1) = t.reads
                  /\ C.reads[n].type = "T"
                  /\ C.reads[n].address = t.result.value
                  /\ C.result = C.reads[n].outcome
                  /\ C.result.ok => n = Len(C.this.path)
             ELSE /\ C.reads = t.reads
                  /\ C.result = t.result]_vars

C7_Witness ==
    /\ Called /\ L.op \in ValueOps /\ N = 3 /\ Len(Reads) = 3 /\ L.result.ok
    /\ Reads[3].type = "T"

\* C8: the resolve calls leave the pointers as they were made; the outcome
\* of a call is that of the operation on the pointer, the base and the
\* memory of the moment, whatever was called before; a call from a non-null
\* base on a non-empty path whose reads all succeed returns a success, also
\* after a failed call.
C8_NotPoisoned ==
    /\ status = "live" => ptr = built
    /\ (Called /\ ~IsNull(L.base) /\ N >= 1 /\ AllReadsOk) => L.result.ok
C8_Reusable ==
    /\ []C8_NotPoisoned
    /\ [][IsCall =>
             /\ ptr' = ptr /\ rebased' = rebased
             /\ C.this = Self(C.self)
             /\ Traversal(C.reads, C.result) = Outcome(C.op, C.this, mem, C.base)
         ]_vars

C8_Witness ==
    /\ failedBefore /\ Called /\ L.self = "ptr" /\ ~IsNull(L.base)
    /\ L.result.ok /\ Len(Reads) >= 1 /\ ptr = built

\* C9: every intermediate read of a traversal has the type the width of the
\* pointer selects: Address32 for Bit32, whose value is below 2^32, so that
\* the address resolved through at least one read is below 2^32 + the last
\* offset; Address64 for Bit64, whose value is followed in full.  The
\* default width is Bit64.
PointerReads == {k \in 1 .. Len(Reads) : Reads[k].type # "T"}
C9_Width ==
    /\ Called =>
          /\ \A k \in PointerReads :
                /\ Reads[k].type = IF L.this.deref_type = "Bit32"
                                   THEN "Address32" ELSE "Address64"
                /\ (L.this.deref_type = "Bit32" /\ Reads[k].outcome.ok)
                      => Reads[k].outcome.value < NarrowSpace
                /\ (Reads[k].outcome.ok /\ k + 1 \in PointerReads)
                      => Reads[k + 1].address
                            = AddressAdd(Reads[k].outcome.value, Offsets[k + 1])
          /\ (L.this.deref_type = "Bit32" /\ L.op \in AddressOps /\ N >= 2
                /\ L.result.ok)
                => L.result.value < NarrowSpace + Offsets[N]
    /\ (status = "live" /\ args = <<>>) => ptr[1].deref_type = "Bit64"

C9_Witness ==
    /\ Called /\ L.op \in AddressOps /\ L.this.deref_type = "Bit32"
    /\ N = 3 /\ L.result.ok /\ Reads[1].outcome.value \notin MemValues
    /\ Reads[1].address \in DOMAIN mem /\ mem[Reads[1].address] >= NarrowSpace

\* C10: a pointer read that succeeds with the null address does not stop a
\* resolve_address: the next read is issued at 0 + the next offset, or,
\* after the last intermediate read, the call returns 0 + the last offset.
NullReads ==
    {k \in PointerReads : Reads[k].outcome.ok /\ IsNull(Reads[k].outcome.value)}
C10_NullPointerFollowed ==
    (Called /\ L.op \in AddressOps)
    => \A k \in NullReads :
          IF k < N - 1
          THEN /\ Len(Reads) >= k + 1
               /\ Reads[k + 1].address = AddressAdd(0, Offsets[k + 1])
          ELSE L.result = Ok(AddressAdd(0, Offsets[N]))

C10_Witness ==
    /\ Called /\ L.op \in AddressOps /\ N = 3 /\ NullReads = {2}
    /\ L.result = Ok(AddressAdd(0, Offsets[3]))

====
